---- MODULE Spec2Model ----
(***************************************************************************)
(* A model of the content transformation pipeline of src/main.rs:          *)
(*   - preprocess_math        : the math scanner (SpecMath)                *)
(*   - convert_internal_links : the link rewriter (SpecLinks)              *)
(*   - main / generate_navbar : document ordering, navigation entry list   *)
(*                              and per-page navbar rendering (Spec)       *)
(* Strings are sequences of one-character strings, so that prefix, suffix, *)
(* search and replace are computed character by character as the code does.*)
(***************************************************************************)
EXTENDS Integers, Sequences, FiniteSets, TLC

VARIABLES
    \* preprocess_math
    md,                 \* the markdown text being scanned
    pos,                \* index of the next character `chars.next()` yields
    mode,               \* "idle" | "top" | "display" | "inline" | "paren" | "bracket" | "done"
    tex,                \* the TeX collected for the span being scanned
    result,             \* the output built so far (a sequence of output items)
    \* convert_internal_links
    html,               \* the rendered HTML, a sequence of tokens
    markdown_file_names,\* the HashSet of known document slugs
    caps,               \* the matches `link_pattern.captures_iter(html)` iterates
    cap,                \* index of the next capture the iterator yields
    replacements,       \* Vec<(start, end, new_link)>
    rep,                \* how many entries of `replacements` are still to be applied
    link_result,        \* `result`: the HTML being rewritten
    lpc,                \* "idle" | "scan" | "replace" | "done"
    \* main
    markdown_files,     \* Vec of (relative_path, title), first in discovery order
    markdown_titles,    \* HashMap slug -> title
    titles_order,       \* the keys in subdirectories, as markdown_titles.keys() yields them
    page_order,         \* Option<Vec<Value>>
    navbar_order,       \* Option<Vec<Value>>
    dropdowns,          \* Option<HashMap<String, Value>>, entries in the order written
    pages_in_dropdowns, \* HashSet<String>
    navbar_items,       \* Vec<NavbarItem>
    pc,                 \* "idle" | "sort" | "dropdowns" | "navbar" | "render" | "done"
    page,               \* index in markdown_files of the next page to render
    rendered,           \* the pages written so far: (relative_path, asset_prefix, navbar)
    \* extract_frontmatter
    content,            \* the text of the document
    from_str,           \* "none" | "ok" | "err": what serde_yaml::from_str returned
    frontmatter,        \* the Option<FrontMatter> returned
    markdown_content,   \* the &str returned
    fpc                 \* "idle" | "call" | "done" | "panic"

mathVars == <<md, pos, mode, tex, result>>

linkVars == <<html, markdown_file_names, caps, cap, replacements, rep, link_result, lpc>>

navVars == <<markdown_files, markdown_titles, titles_order, page_order, navbar_order, dropdowns,
            pages_in_dropdowns, navbar_items, pc, page, rendered>>

frontVars == <<content, from_str, frontmatter, markdown_content, fpc>>

vars == <<md, pos, mode, tex, result,
          html, markdown_file_names, caps, cap, replacements, rep, link_result, lpc,
          markdown_files, markdown_titles, titles_order, page_order, navbar_order, dropdowns,
          pages_in_dropdowns, navbar_items, pc, page, rendered,
          content, from_str, frontmatter, markdown_content, fpc>>

\* The state of a component that is not running.
MathIdle ==
    /\ md = <<>>
    /\ pos = 1
    /\ mode = "idle"
    /\ tex = <<>>
    /\ result = <<>>

LinksIdle ==
    /\ html = <<>>
    /\ markdown_file_names = {}
    /\ caps = <<>>
    /\ cap = 1
    /\ replacements = <<>>
    /\ rep = 0
    /\ link_result = <<>>
    /\ lpc = "idle"

NavIdle ==
    /\ markdown_files = <<>>
    /\ markdown_titles = <<>>
    /\ titles_order = <<>>
    /\ page_order = [some |-> FALSE, items |-> <<>>]
    /\ navbar_order = [some |-> FALSE, items |-> <<>>]
    /\ dropdowns = [some |-> FALSE, entries |-> <<>>]
    /\ pages_in_dropdowns = {}
    /\ navbar_items = <<>>
    /\ pc = "idle"
    /\ page = 1
    /\ rendered = <<>>

FrontIdle ==
    /\ content = <<>>
    /\ from_str = "none"
    /\ frontmatter = [some |-> FALSE, src |-> <<>>]
    /\ markdown_content = <<>>
    /\ fpc = "idle"

(***************************************************************************)
(* Bounds                                                                  *)
(***************************************************************************)
MaxMathLen == 5
MaxBasePieces == 2
MaxExtraAnchors == 1
MaxOrderLen == 2
MaxFrontPieces == 5

(***************************************************************************)
(* Generic string helpers                                                  *)
(***************************************************************************)
\* All sequences over S of length at most n.
SeqsUpTo(S, n) == UNION {[1..k -> S] : k \in 0..n}

\* str.starts_with(p)
StartsWith(s, p) ==
    /\ Len(p) <= Len(s)
    /\ \A i \in 1..Len(p) : s[i] = p[i]

\* str.ends_with(p)
EndsWith(s, p) ==
    /\ Len(p) <= Len(s)
    /\ \A i \in 1..Len(p) : s[Len(s) - Len(p) + i] = p[i]

\* p occurs in s starting at index i
OccursAt(s, p, i) ==
    /\ i >= 1
    /\ i + Len(p) - 1 <= Len(s)
    /\ \A j \in 1..Len(p) : s[i + j - 1] = p[j]

\* str.contains(p)
Contains(s, p) == \E i \in 1..(Len(s) + 1) : OccursAt(s, p, i)

\* str.find(c) for a single character: the first index, 0 when there is none
FindChar(s, c) ==
    IF \E i \in 1..Len(s) : s[i] = c
    THEN CHOOSE i \in 1..Len(s) : s[i] = c /\ \A j \in 1..(i - 1) : s[j] # c
    ELSE 0

(***************************************************************************)
(* convert_internal_links                                                  *)
(***************************************************************************)
\* Tokens of the HTML text.  An anchor opener is one token; AOPEN is the
\* `<a href="` the markdown renderer and the rewriter write, AOPEN_WS stands
\* for any other text `<a\s+href="` matches (more or other whitespace).
AOPEN == "<a href=\""
AOPEN_WS == "<a  href=\""
QUOTE == "\""
GT == ">"
ATTR == " title=t"

Str_md == <<".", "m", "d">>
Str_html == <<".", "h", "t", "m", "l">>
Str_page == <<"p", "a", "g", "e">>
Str_docs == <<"d", "o", "c", "s", "/">>
Str_lib == <<"l", "i", "b", "/">>
Str_scheme == <<":", "/", "/">>
Str_http == <<"h", "t", "t", "p", ":", "/", "/">>
Str_https == <<"h", "t", "t", "p", "s", ":", "/", "/">>
Str_mailto == <<"m", "a", "i", "l", "t", "o", ":">>

\* The hrefs the model draws: an optional external-looking prefix, a base
\* path of at most MaxBasePieces pieces, and a fragment/query suffix.
HrefPrefixes == {<<>>, Str_http, Str_https, Str_mailto, <<"#">>, <<"/">>}

BasePieces == {Str_page, Str_md, Str_docs, Str_scheme}

RECURSIVE Flatten(_)
Flatten(ss) == IF ss = <<>> THEN <<>> ELSE Head(ss) \o Flatten(Tail(ss))

HrefBases == {Flatten(ps) : ps \in SeqsUpTo(BasePieces, MaxBasePieces)}

HrefSuffixes == {<<>>, <<"#", "s">>, <<"?", "q">>, <<"?", "q", "#", "s">>, <<"#", "s", "?", "q">>}

Hrefs == {h \in {p \o b \o x : p \in HrefPrefixes, b \in HrefBases, x \in HrefSuffixes} : h # <<>>}

ExtraHrefs == {Str_page \o Str_md}

Slugs == {Str_page, Str_docs \o Str_page, Str_lib \o Str_page}

\* The text of one anchor element followed by its link text and `</a>`.
Anchor(open, href, attrs) == <<open>> \o href \o <<QUOTE>> \o attrs \o <<GT, "t", "</a>">>

AnchorShapes == {<<AOPEN, <<>>>>, <<AOPEN, <<ATTR>>>>, <<AOPEN_WS, <<>>>>}

Htmls ==
    {<<"<p>">> \o Anchor(sh[1], h, sh[2]) \o Flatten([i \in 1..Len(xs) |-> Anchor(AOPEN, xs[i], <<>>)])
        : sh \in AnchorShapes, h \in Hrefs, xs \in SeqsUpTo(ExtraHrefs, MaxExtraAnchors)}

\* The first index j >= i with s[j] = c, 0 when there is none.
FindFrom(s, c, i) ==
    IF \E j \in i..Len(s) : s[j] = c
    THEN CHOOSE j \in i..Len(s) : s[j] = c /\ \A k \in i..(j - 1) : s[k] # c
    ELSE 0

\* link_pattern.captures_iter(html), for the pattern <a\s+href="([^"]+)"([^>]*)>:
\* the leftmost non-overlapping matches, each with its first and last index
\* and its two groups.
RECURSIVE CapturesFrom(_, _)
CapturesFrom(h, i) ==
    IF i > Len(h) THEN <<>>
    ELSE LET q == FindFrom(h, QUOTE, i + 1)
             g == IF q = 0 THEN 0 ELSE FindFrom(h, GT, q + 1)
         IN IF h[i] \in {AOPEN, AOPEN_WS} /\ q > i + 1 /\ g > 0
            THEN <<[start |-> i, end |-> g,
                    href |-> SubSeq(h, i + 1, q - 1),
                    attrs |-> SubSeq(h, q + 1, g - 1)]>> \o CapturesFrom(h, g + 1)
            ELSE CapturesFrom(h, i + 1)

Captures(h) == CapturesFrom(h, 1)

\* lines 176-178
IsExternal_NoSlash(href) ==
    \/ StartsWith(href, Str_http)
    \/ StartsWith(href, Str_https)
    \/ StartsWith(href, Str_mailto)
    \/ StartsWith(href, <<"#">>)
    \/ Contains(href, Str_scheme)

IsExternal(href) ==
    \/ StartsWith(href, Str_http)
    \/ StartsWith(href, Str_https)
    \/ StartsWith(href, Str_mailto)
    \/ StartsWith(href, <<"#">>)
    \/ StartsWith(href, <<"/">>)
    \/ Contains(href, Str_scheme)

\* lines 183-191: (base_href, fragment_query); a missing fragment_query is
\* the empty string, which push_str would add as nothing.
SplitHref(href) ==
    LET h == FindChar(href, "#")
        q == FindChar(href, "?")
        at == IF h # 0 THEN h ELSE q
    IN IF at = 0
       THEN [base |-> href, fq |-> <<>>]
       ELSE [base |-> SubSeq(href, 1, at - 1), fq |-> SubSeq(href, at, Len(href))]

\* str.replace(from, to): every non-overlapping occurrence, left to right
RECURSIVE ReplaceAll(_, _, _)
ReplaceAll(s, from, to) ==
    IF s = <<>> THEN <<>>
    ELSE IF OccursAt(s, from, 1)
         THEN to \o ReplaceAll(SubSeq(s, Len(from) + 1, Len(s)), from, to)
         ELSE <<Head(s)>> \o ReplaceAll(Tail(s), from, to)

\* line 195
MdToHtml(base_href) == ReplaceAll(base_href, Str_md, Str_html)

\* line 204: the predicate of `find`
PathMatches(path, base_href) ==
    path = base_href \/ EndsWith(path, <<"/">> \o base_href)

\* lines 202-205: `markdown_files.iter().find(..)` returns the first match in
\* the HashSet's iteration order, which is unspecified: any matching element.
MatchedPaths(files, base_href) == {path \in files : PathMatches(path, base_href)}

\* line 222
NewLink(new_href, attrs) == <<AOPEN>> \o new_href \o <<QUOTE>> \o attrs \o <<GT>>

\* String::replace_range(start..end, replacement)
ReplaceRange(s, start, end, replacement) ==
    SubSeq(s, 1, start - 1) \o replacement \o SubSeq(s, end + 1, Len(s))

LinksInit ==
    /\ html \in Htmls
    /\ markdown_file_names \in SUBSET Slugs
    /\ caps = Captures(html)
    /\ cap = 1
    /\ replacements = <<>>
    /\ rep = 0
    /\ link_result = html
    /\ lpc = "scan"
    /\ MathIdle
    /\ NavIdle
    /\ FrontIdle

Scanning == lpc = "scan" /\ cap <= Len(caps)

CurCap == caps[cap]

Continue ==
    /\ cap' = cap + 1
    /\ UNCHANGED <<html, markdown_file_names, caps, replacements, rep, link_result, lpc, mathVars, navVars, frontVars>>

PushReplacement(new_href) ==
    /\ replacements' = Append(replacements,
            [start |-> CurCap.start, end |-> CurCap.end,
             new_link |-> NewLink(new_href, CurCap.attrs)])
    /\ cap' = cap + 1
    /\ UNCHANGED <<html, markdown_file_names, caps, rep, link_result, lpc, mathVars, navVars, frontVars>>

\* lines 176-180
SkipExternal ==
    /\ Scanning
    /\ IsExternal(CurCap.href)
    /\ Continue

\* lines 193-199
RewriteMd ==
    /\ Scanning
    /\ ~IsExternal(CurCap.href)
    /\ LET sp == SplitHref(CurCap.href)
       IN /\ EndsWith(sp.base, Str_md)
          /\ PushReplacement(MdToHtml(sp.base) \o sp.fq)

\* lines 200-212
RewriteSlug ==
    /\ Scanning
    /\ ~IsExternal(CurCap.href)
    /\ LET sp == SplitHref(CurCap.href)
       IN /\ ~EndsWith(sp.base, Str_md)
          /\ ~Contains(sp.base, <<".">>)
          /\ \E matched \in MatchedPaths(markdown_file_names, sp.base) :
                PushReplacement(matched \o Str_html \o sp.fq)

\* lines 213-216
SkipUnmatched ==
    /\ Scanning
    /\ ~IsExternal(CurCap.href)
    /\ LET sp == SplitHref(CurCap.href)
       IN /\ ~EndsWith(sp.base, Str_md)
          /\ ~Contains(sp.base, <<".">>)
          /\ MatchedPaths(markdown_file_names, sp.base) = {}
    /\ Continue

\* lines 217-220
SkipOtherExtension ==
    /\ Scanning
    /\ ~IsExternal(CurCap.href)
    /\ LET sp == SplitHref(CurCap.href)
       IN /\ ~EndsWith(sp.base, Str_md)
          /\ Contains(sp.base, <<".">>)
    /\ Continue

\* `captures_iter` is exhausted
ScanEnd ==
    /\ lpc = "scan"
    /\ cap > Len(caps)
    /\ lpc' = "replace"
    /\ rep' = Len(replacements)
    /\ UNCHANGED <<html, markdown_file_names, caps, cap, replacements, link_result, mathVars, navVars, frontVars>>

\* lines 227-229: one iteration of `replacements.iter().rev()`
ApplyReplacement ==
    /\ lpc = "replace"
    /\ rep > 0
    /\ LET r == replacements[rep]
       IN link_result' = ReplaceRange(link_result, r.start, r.end, r.new_link)
    /\ rep' = rep - 1
    /\ UNCHANGED <<html, markdown_file_names, caps, cap, replacements, lpc, mathVars, navVars, frontVars>>

\* line 231
LinksFinish ==
    /\ lpc = "replace"
    /\ rep = 0
    /\ lpc' = "done"
    /\ UNCHANGED <<html, markdown_file_names, caps, cap, replacements, rep, link_result, mathVars, navVars, frontVars>>

LinksNext ==
    \/ SkipExternal
    \/ RewriteMd
    \/ RewriteSlug
    \/ SkipUnmatched
    \/ SkipOtherExtension
    \/ ScanEnd
    \/ ApplyReplacement
    \/ LinksFinish

SpecLinks == LinksInit /\ [][LinksNext]_vars

(***************************************************************************)
(* Claims about convert_internal_links                                     *)
(***************************************************************************)
\* The anchors of the rewritten HTML, in order.
OutCaps == Captures(link_result)

\* The text of the anchor a capture stands for.
AnchorText(h, c) == SubSeq(h, c.start, c.end)

\* External as the specification words it.
SpecExternal(href) ==
    \/ \E p \in {Str_http, Str_https, Str_mailto, <<"#">>, <<"/">>} : StartsWith(href, p)
    \/ \E i \in 1..Len(href) : OccursAt(href, Str_scheme, i)

\* The split at the first '#' or '?', whichever occurs first.
SpecSplitAt(href) ==
    LET marks == {i \in 1..Len(href) : href[i] \in {"#", "?"}}
    IN IF marks = {} THEN Len(href) + 1
       ELSE CHOOSE i \in marks : \A j \in marks : i <= j

SpecBase(href) == SubSeq(href, 1, SpecSplitAt(href) - 1)

SpecSuffix(href) == SubSeq(href, SpecSplitAt(href), Len(href))

\* A '?' occurs before the first '#'.
QueryBeforeFragment(href) ==
    \E i, j \in 1..Len(href) : i < j /\ href[i] = "?" /\ href[j] = "#"

\* s without its last n characters
DropLast(s, n) == SubSeq(s, 1, Len(s) - n)

\* C1: an anchor whose href starts with http://, https://, mailto:, '#' or
\* '/', or contains '://', is byte-identical in the output, for every set of
\* known slugs.
C1_ExternalUntouched ==
    lpc = "done" =>
        /\ Len(OutCaps) = Len(caps)
        /\ \A k \in 1..Len(caps) :
              SpecExternal(caps[k].href) =>
                  AnchorText(link_result, OutCaps[k]) = AnchorText(html, caps[k])

\* C1, its case: an external anchor whose href contains a known slug and
\* ends in '.md' is among the anchors of a text another anchor of which was
\* rewritten.
C1_Witness ==
    /\ lpc = "done"
    /\ link_result # html
    /\ \E k \in 1..Len(caps) :
          /\ SpecExternal(caps[k].href)
          /\ EndsWith(caps[k].href, Str_md)
          /\ \E slug \in markdown_file_names : Contains(caps[k].href, slug)

\* C2: a non-external href whose base path ends in '.md' is rewritten to the
\* base path with exactly that trailing '.md' replaced by '.html', every
\* other character unchanged, followed by the suffix unchanged.  (Hrefs with
\* a '?' before a '#' are the subject of C4 and are left out here.)
C2_TrailingMdReplaced ==
    lpc = "done" =>
        \A k \in 1..Len(caps) :
            LET href == caps[k].href
            IN (/\ ~SpecExternal(href)
                /\ ~QueryBeforeFragment(href)
                /\ EndsWith(SpecBase(href), Str_md))
               => /\ Len(OutCaps) = Len(caps)
                  /\ OutCaps[k].href =
                        DropLast(SpecBase(href), 3) \o Str_html \o SpecSuffix(href)

\* C3: with slug s known, a non-external href whose extension-less base
\* path equals s is rewritten to s + '.html' + suffix, also when another
\* known slug has s as its final segment; a base that matches only as the
\* final segment of a known slug becomes that slug + '.html' + suffix.
C3_SlugRewritten ==
    lpc = "done" =>
        \A k \in 1..Len(caps) :
            LET href == caps[k].href
                base == SpecBase(href)
                bySegment == {s \in markdown_file_names : EndsWith(s, <<"/">> \o base)}
            IN (/\ ~SpecExternal(href)
                /\ ~QueryBeforeFragment(href)
                /\ ~Contains(base, <<".">>))
               => /\ base \in markdown_file_names =>
                        /\ Len(OutCaps) = Len(caps)
                        /\ OutCaps[k].href = base \o Str_html \o SpecSuffix(href)
                  /\ (base \notin markdown_file_names /\ bySegment # {}) =>
                        /\ Len(OutCaps) = Len(caps)
                        /\ \E s \in bySegment :
                              OutCaps[k].href = s \o Str_html \o SpecSuffix(href)

\* C4: the href is split at the earliest '#' or '?'; when a '?' occurs before
\* a '#', the base is the text before the '?', so a base ending in '.md' is
\* rewritten to '.html' and the whole suffix from the '?' on is reattached.
\* (Bases with an earlier '.md' are the subject of C2 and are left out here.)
C4_SplitAtEarliestMark ==
    lpc = "done" =>
        \A k \in 1..Len(caps) :
            LET href == caps[k].href
                base == SpecBase(href)
            IN (/\ ~SpecExternal(href)
                /\ QueryBeforeFragment(href)
                /\ EndsWith(base, Str_md)
                /\ ~Contains(DropLast(base, 3), Str_md))
               => /\ Len(OutCaps) = Len(caps)
                  /\ OutCaps[k].href = DropLast(base, 3) \o Str_html \o SpecSuffix(href)

(***************************************************************************)
(* preprocess_math                                                         *)
(***************************************************************************)
MathAlphabet == {"$", "\\", "(", ")", "[", "]", "a", "\n"}

IsSpace(c) == c \in {" ", "\n", "\t"}

\* str.trim(): leading and trailing whitespace removed
RECURSIVE TrimStart(_)
TrimStart(s) ==
    IF s # <<>> /\ IsSpace(Head(s)) THEN TrimStart(Tail(s)) ELSE s

RECURSIVE TrimEnd(_)
TrimEnd(s) ==
    IF s # <<>> /\ IsSpace(s[Len(s)]) THEN TrimEnd(SubSeq(s, 1, Len(s) - 1)) ELSE s

Trim(s) == TrimEnd(TrimStart(s))

\* Output items.  A copied character, the markup katex returns for a span,
\* or the error element substituted when katex fails.
Ch(c) == [kind |-> "ch", display |-> FALSE, tex |-> <<c>>]

Lit(s) == [i \in 1..Len(s) |-> Ch(s[i])]

KatexHtml_Untrimmed(t, disp) == [kind |-> "katex", display |-> disp, tex |-> t]

KatexHtml(t, disp) == [kind |-> "katex", display |-> disp, tex |-> Trim(t)]

MathError_Trimmed(t, disp) == [kind |-> "math-error", display |-> disp, tex |-> Trim(t)]

MathError(t, disp) == [kind |-> "math-error", display |-> disp, tex |-> t]

\* katex::render_with_opts(tex.trim(), ..).unwrap_or_else(error element)
Rendered(t, disp, ok) == IF ok THEN KatexHtml(t, disp) ELSE MathError(t, disp)

\* chars.peek() == Some(&c)
PeekIs(c) == pos <= Len(md) /\ md[pos] = c

\* chars.peek() == Some(&c) after one more chars.next()
Peek2Is(c) == pos + 1 <= Len(md) /\ md[pos + 1] = c

MathInit ==
    /\ md \in SeqsUpTo(MathAlphabet, MaxMathLen)
    /\ pos = 1
    /\ mode = "top"
    /\ tex = <<>>
    /\ result = <<>>
    /\ LinksIdle
    /\ NavIdle
    /\ FrontIdle

\* ch is neither '$' nor a backslash opening a span: copied through
TopCopy ==
    /\ mode = "top"
    /\ pos <= Len(md)
    /\ md[pos] # "$"
    /\ ~(md[pos] = "\\" /\ (Peek2Is("(") \/ Peek2Is("[")))
    /\ result' = Append(result, Ch(md[pos]))
    /\ pos' = pos + 1
    /\ UNCHANGED <<md, mode, tex, linkVars, navVars, frontVars>>

\* '$' followed by '$'
OpenDisplay ==
    /\ mode = "top"
    /\ PeekIs("$")
    /\ Peek2Is("$")
    /\ pos' = pos + 2
    /\ mode' = "display"
    /\ tex' = <<>>
    /\ UNCHANGED <<md, result, linkVars, navVars, frontVars>>

\* '$' not followed by '$'
OpenInline ==
    /\ mode = "top"
    /\ PeekIs("$")
    /\ ~Peek2Is("$")
    /\ pos' = pos + 1
    /\ mode' = "inline"
    /\ tex' = <<>>
    /\ UNCHANGED <<md, result, linkVars, navVars, frontVars>>

\* backslash followed by '('
OpenParen ==
    /\ mode = "top"
    /\ PeekIs("\\")
    /\ Peek2Is("(")
    /\ pos' = pos + 2
    /\ mode' = "paren"
    /\ tex' = <<>>
    /\ UNCHANGED <<md, result, linkVars, navVars, frontVars>>

\* backslash followed by '['
OpenBracket ==
    /\ mode = "top"
    /\ PeekIs("\\")
    /\ Peek2Is("[")
    /\ pos' = pos + 2
    /\ mode' = "bracket"
    /\ tex' = <<>>
    /\ UNCHANGED <<md, result, linkVars, navVars, frontVars>>

\* The three two-character-terminated spans share the shape of their inner
\* loop: first and second character of the terminator, the opener to put
\* back, and whether the span is display math.
TwoCharPush(m, c1, c2) ==
    /\ mode = m
    /\ pos <= Len(md)
    /\ ~(md[pos] = c1 /\ Peek2Is(c2))
    /\ tex' = Append(tex, md[pos])
    /\ pos' = pos + 1
    /\ UNCHANGED <<md, mode, result, linkVars, navVars, frontVars>>

TwoCharClose(m, c1, c2, disp) ==
    /\ mode = m
    /\ PeekIs(c1)
    /\ Peek2Is(c2)
    /\ \E ok \in BOOLEAN : result' = Append(result, Rendered(tex, disp, ok))
    /\ pos' = pos + 2
    /\ mode' = "top"
    /\ tex' = <<>>
    /\ UNCHANGED <<md, linkVars, navVars, frontVars>>

TwoCharEOF_DropsTex(m, opener) ==
    /\ mode = m
    /\ pos > Len(md)
    /\ result' = result \o Lit(opener)
    /\ mode' = "top"
    /\ tex' = <<>>
    /\ UNCHANGED <<md, pos, linkVars, navVars, frontVars>>

TwoCharEOF(m, opener) ==
    /\ mode = m
    /\ pos > Len(md)
    /\ result' = result \o Lit(opener) \o Lit(tex)
    /\ mode' = "top"
    /\ tex' = <<>>
    /\ UNCHANGED <<md, pos, linkVars, navVars, frontVars>>

DisplayPush == TwoCharPush("display", "$", "$")
DisplayClose == TwoCharClose("display", "$", "$", TRUE)
DisplayEOF == TwoCharEOF("display", <<"$", "$">>)

ParenPush == TwoCharPush("paren", "\\", ")")
ParenClose == TwoCharClose("paren", "\\", ")", FALSE)
ParenEOF == TwoCharEOF("paren", <<"\\", "(">>)

BracketPush == TwoCharPush("bracket", "\\", "]")
BracketClose == TwoCharClose("bracket", "\\", "]", TRUE)
BracketEOF == TwoCharEOF("bracket", <<"\\", "[">>)

InlinePush ==
    /\ mode = "inline"
    /\ pos <= Len(md)
    /\ md[pos] # "$"
    /\ md[pos] # "\n"
    /\ tex' = Append(tex, md[pos])
    /\ pos' = pos + 1
    /\ UNCHANGED <<md, mode, result, linkVars, navVars, frontVars>>

\* The text pushed after the inner loop of an inline span (lines 94-101).
InlineTail(t, found_end, ok) ==
    IF found_end /\ t # <<>>
    THEN <<Rendered(t, FALSE, ok)>>
    ELSE Lit(<<"$">>) \o Lit(t)

\* c == '$': found_end, break
InlineClose ==
    /\ mode = "inline"
    /\ PeekIs("$")
    /\ \E ok \in BOOLEAN : result' = result \o InlineTail(tex, TRUE, ok)
    /\ pos' = pos + 1
    /\ mode' = "top"
    /\ tex' = <<>>
    /\ UNCHANGED <<md, linkVars, navVars, frontVars>>

\* c == '\n': '$', tex and the newline are put back, tex is cleared, break;
\* the code after the loop then runs with found_end = false and tex empty.
InlineNewline ==
    /\ mode = "inline"
    /\ PeekIs("\n")
    /\ result' = result \o Lit(<<"$">>) \o Lit(tex) \o Lit(<<"\n">>)
                        \o InlineTail(<<>>, FALSE, TRUE)
    /\ pos' = pos + 1
    /\ mode' = "top"
    /\ tex' = <<>>
    /\ UNCHANGED <<md, linkVars, navVars, frontVars>>

\* input ended inside the inline span
InlineEOF ==
    /\ mode = "inline"
    /\ pos > Len(md)
    /\ result' = result \o InlineTail(tex, FALSE, TRUE)
    /\ mode' = "top"
    /\ tex' = <<>>
    /\ UNCHANGED <<md, pos, linkVars, navVars, frontVars>>

\* the outer `while let Some(ch) = chars.next()` ends
MathFinish ==
    /\ mode = "top"
    /\ pos > Len(md)
    /\ mode' = "done"
    /\ UNCHANGED <<md, pos, tex, result, linkVars, navVars, frontVars>>

MathNext ==
    \/ TopCopy
    \/ OpenDisplay
    \/ OpenInline
    \/ OpenParen
    \/ OpenBracket
    \/ DisplayPush
    \/ DisplayClose
    \/ DisplayEOF
    \/ InlinePush
    \/ InlineClose
    \/ InlineNewline
    \/ InlineEOF
    \/ ParenPush
    \/ ParenClose
    \/ ParenEOF
    \/ BracketPush
    \/ BracketClose
    \/ BracketEOF
    \/ MathFinish

SpecMath == MathInit /\ [][MathNext]_vars

(***************************************************************************)
(* Claims about preprocess_math                                            *)
(***************************************************************************)
CountOf(s, c) == Cardinality({i \in 1..Len(s) : s[i] = c})

\* s has no character that can open a span
Plain(s) == \A i \in 1..Len(s) : s[i] # "$" /\ s[i] # "\\"

\* the part of s from index i to its end
From(s, i) == SubSeq(s, i, Len(s))

\* The input's only '$' is an inline opener with a newline somewhere after
\* it, and nothing else in the input can open a span.
OnlyDollarThenNewline ==
    /\ CountOf(md, "$") = 1
    /\ CountOf(md, "\\") = 0
    /\ \E i \in 1..Len(md) : md[i] = "$" /\ \E j \in (i + 1)..Len(md) : md[j] = "\n"

\* C5: an inline '$' opener followed by text without '$' and then a newline
\* is not math and is emitted as '$' + text + newline, nothing added or
\* dropped; an input whose only '$' is such an opener is returned identical
\* to the input.
C5_InlineNewlineVerbatim ==
    (mode = "done" /\ OnlyDollarThenNewline) => result = Lit(md)

\* The first opener of the input, at index i, has no terminator before the
\* end of the input (and, for '$', nothing after it can open another span).
UnterminatedAt(i) ==
    /\ i \in 1..Len(md)
    /\ Plain(SubSeq(md, 1, i - 1))
    /\ \/ /\ OccursAt(md, <<"$", "$">>, i)
          /\ ~Contains(From(md, i + 2), <<"$", "$">>)
       \/ /\ md[i] = "$"
          /\ ~OccursAt(md, <<"$", "$">>, i)
          /\ Plain(From(md, i + 1))
       \/ /\ OccursAt(md, <<"\\", "(">>, i)
          /\ ~Contains(From(md, i + 2), <<"\\", ")">>)
       \/ /\ OccursAt(md, <<"\\", "[">>, i)
          /\ ~Contains(From(md, i + 2), <<"\\", "]">>)

\* C6: for each of the four openers, when no terminator occurs before the
\* end of the input nothing is rendered for it and the output from the
\* opener to the end equals the input from the opener to the end.
C6_UnterminatedVerbatim ==
    (mode = "done" /\ \E i \in 1..Len(md) : UnterminatedAt(i)) => result = Lit(md)

(***************************************************************************)
(* main: document order, navigation entries, per-page navbar               *)
(***************************************************************************)
Str_index == <<"i", "n", "d", "e", "x">>
Str_ext_md == <<"m", "d">>
Str_ext_html == <<"h", "t", "m", "l">>
Str_up == <<".", ".", "/">>
Str_logo == <<"assets/logo-wide.png">>
Str_IDEEP == <<"IDEEP">>

\* An absent value: Option::None, or a key a YAML mapping does not have.
NoVal == <<"~">>

\* The last index of c in s, 0 when there is none.
LastIndexOf(s, c) ==
    IF \E i \in 1..Len(s) : s[i] = c
    THEN CHOOSE i \in 1..Len(s) : s[i] = c /\ \A j \in (i + 1)..Len(s) : s[j] # c
    ELSE 0

\* Path::file_name
FileName(path) == SubSeq(path, LastIndexOf(path, "/") + 1, Len(path))

\* Path::parent, the empty path for a bare file name
Parent(path) == SubSeq(path, 1, LastIndexOf(path, "/") - 1)

\* Path::components().count() of a relative path
ComponentCount(path) ==
    IF path = <<>> THEN 0
    ELSE Cardinality({i \in 1..Len(path) : path[i] = "/"}) + 1

\* Path::file_stem: the file name without its extension; a name whose only
\* dot is its first character has no extension.
FileStem(path) ==
    LET name == FileName(path)
        dot == LastIndexOf(name, ".")
    IN IF dot > 1 THEN SubSeq(name, 1, dot - 1) ELSE name

\* Path::with_extension
WithExtension(path, ext) ==
    LET stemmed == SubSeq(path, 1, Len(path) - Len(FileName(path))) \o FileStem(path)
    IN IF ext = <<>> THEN stemmed ELSE stemmed \o <<".">> \o ext

\* relative_path.with_extension("").to_string_lossy().replace('\\', "/")
RelKey(path) == WithExtension(path, <<>>)

RECURSIVE Repeat(_, _)
Repeat(s, n) == IF n = 0 THEN <<>> ELSE s \o Repeat(s, n - 1)

\* lines 693-705
CalculateAssetPrefix_OneLevel(relative_path) ==
    IF ComponentCount(Parent(relative_path)) = 0 THEN <<>> ELSE Str_up

CalculateAssetPrefix(relative_path) ==
    LET depth == ComponentCount(Parent(relative_path))
    IN IF depth = 0 THEN <<>> ELSE Repeat(Str_up, depth)

\* The byte of a character, for the characters slugs are made of.
Byte(c) ==
    CASE c = "." -> 46 [] c = "/" -> 47 [] c = "a" -> 97 [] c = "b" -> 98
      [] c = "c" -> 99 [] c = "d" -> 100 [] c = "e" -> 101 [] c = "i" -> 105
      [] c = "m" -> 109 [] c = "n" -> 110 [] c = "x" -> 120

\* Ordering values
Less == 0 - 1
Equal == 0
Greater == 1

\* str::cmp: lexicographic by byte
RECURSIVE StrCmp(_, _)
StrCmp(a, b) ==
    IF a = <<>> THEN (IF b = <<>> THEN Equal ELSE Less)
    ELSE IF b = <<>> THEN Greater
    ELSE IF Byte(Head(a)) < Byte(Head(b)) THEN Less
    ELSE IF Byte(Head(a)) > Byte(Head(b)) THEN Greater
    ELSE StrCmp(Tail(a), Tail(b))

IntCmp(i, j) == IF i < j THEN Less ELSE IF i > j THEN Greater ELSE Equal

\* serde_yaml values of the order lists and of sequence dropdowns
StrItem(s) == [t |-> "str", s |-> s, dropdown |-> NoVal, url |-> NoVal, text |-> NoVal]
MapItem(dd, url, text) == [t |-> "map", s |-> NoVal, dropdown |-> dd, url |-> url, text |-> text]

\* dropdown values
MappingValue(pairs) == [t |-> "mapping", pairs |-> pairs, items |-> <<>>]
SequenceValue(items) == [t |-> "sequence", pairs |-> <<>>, items |-> items]

\* A document as find_markdown_files records it (the full path is the
\* relative path under content/ and is left out).
File(path, title) == [relative_path |-> path, title |-> title]

\* lines 902-909: the name of an order entry matches a slug
NameMatches(page_name, key) ==
    page_name = key \/ EndsWith(key, <<"/">> \o page_name)

\* order.iter().position(..): 0 stands for None
Position(order, key) ==
    LET hits == {i \in 1..Len(order) : order[i].t = "str" /\ NameMatches(order[i].s, key)}
    IN IF hits = {} THEN 0 ELSE CHOOSE i \in hits : \A j \in hits : i <= j

\* lines 894-924: the comparator of the sort by page_order
CmpByOrder(order, a, b) ==
    LET a_key == RelKey(a.relative_path)
        b_key == RelKey(b.relative_path)
        a_pos == Position(order, a_key)
        b_pos == Position(order, b_key)
    IN IF a_pos # 0 /\ b_pos # 0 THEN IntCmp(a_pos, b_pos)
       ELSE IF a_pos # 0 THEN Less
       ELSE IF b_pos # 0 THEN Greater
       ELSE StrCmp(a_key, b_key)

\* lines 935-948: the comparator of the default sort
CmpDefault(a, b) ==
    LET a_key == RelKey(a.relative_path)
        b_key == RelKey(b.relative_path)
    IN IF a_key = Str_index /\ b_key # Str_index THEN Less
       ELSE IF a_key # Str_index /\ b_key = Str_index THEN Greater
       ELSE StrCmp(a_key, b_key)

Cmp(po, a, b) == IF po.some THEN CmpByOrder(po.items, a, b) ELSE CmpDefault(a, b)

\* slice::sort_by is a stable sort: x goes before the first element it is
\* Less than.
RECURSIVE InsertStable(_, _, _)
InsertStable(sorted, x, po) ==
    IF sorted = <<>> THEN <<x>>
    ELSE IF Cmp(po, x, Head(sorted)) = Less THEN <<x>> \o sorted
    ELSE <<Head(sorted)>> \o InsertStable(Tail(sorted), x, po)

RECURSIVE SortBy(_, _)
SortBy(files, po) ==
    IF files = <<>> THEN <<>>
    ELSE InsertStable(SortBy(SubSeq(files, 1, Len(files) - 1), po), files[Len(files)], po)

\* lines 877-932: index_file keeps the last file whose key is "index"
SortWithPageOrder_NoFallback(files, po) ==
    LET isIndex(f) == RelKey(f.relative_path) = Str_index
        index_file == SelectSeq(files, isIndex)
        other_files == SelectSeq(files, LAMBDA f : ~isIndex(f))
        named == SelectSeq(other_files, LAMBDA f : Position(po.items, RelKey(f.relative_path)) # 0)
        unnamed == SelectSeq(other_files, LAMBDA f : Position(po.items, RelKey(f.relative_path)) = 0)
    IN (IF index_file = <<>> THEN <<>> ELSE <<index_file[Len(index_file)]>>)
           \o SortBy(named, po) \o unnamed

SortWithPageOrder(files, po) ==
    LET isIndex(f) == RelKey(f.relative_path) = Str_index
        index_file == SelectSeq(files, isIndex)
        other_files == SelectSeq(files, LAMBDA f : ~isIndex(f))
    IN (IF index_file = <<>> THEN <<>> ELSE <<index_file[Len(index_file)]>>)
           \o SortBy(other_files, po)

\* lines 935-948
SortDefault(files) == SortBy(files, [some |-> FALSE, items |-> <<>>])

\* lines 953-969
CollectPagesInDropdowns_WithMappings(dd) ==
    UNION {{dd.entries[i].value.items[j].s :
                j \in {j \in 1..Len(dd.entries[i].value.items) :
                          dd.entries[i].value.items[j].t = "str"}}
            \cup {dd.entries[i].value.pairs[j].key :
                    j \in 1..Len(dd.entries[i].value.pairs)}
            : i \in 1..Len(dd.entries)}

CollectPagesInDropdowns(dd) ==
    UNION {{dd.entries[i].value.items[j].s :
                j \in {j \in 1..Len(dd.entries[i].value.items) :
                          dd.entries[i].value.items[j].t = "str"}}
            : i \in {i \in 1..Len(dd.entries) : dd.entries[i].value.t = "sequence"}}

\* NavbarItem
MarkdownFile(path, title) == [kind |-> "MarkdownFile", a |-> path, b |-> title]
ExternalLink(url, text) == [kind |-> "ExternalLink", a |-> url, b |-> text]
Dropdown(name) == [kind |-> "Dropdown", a |-> name, b |-> <<>>]

\* dropdowns_map.contains_key(name)
ContainsKey(dd, name) == \E i \in 1..Len(dd.entries) : dd.entries[i].name = name

\* dropdowns_map.get(name)
GetDropdown(dd, name) ==
    dd.entries[CHOOSE i \in 1..Len(dd.entries) : dd.entries[i].name = name].value

\* markdown_files.iter().find(..): the index of the first file whose key is
\* the name or ends with '/' + name, 0 for None
FindFile(files, page_name) ==
    LET hits == {i \in 1..Len(files) : NameMatches(page_name, RelKey(files[i].relative_path))}
    IN IF hits = {} THEN 0 ELSE CHOOSE i \in hits : \A j \in hits : i <= j

\* lines 1014-1022 and 1054-1062
ExternalLinkOf(item) ==
    IF item.url # NoVal /\ item.text # NoVal
    THEN <<ExternalLink(item.url, item.text)>>
    ELSE <<>>

\* lines 977-1026: the entries one item of navbar_order yields
NavbarOrderEntry(item, files, dd) ==
    IF item.t = "str"
    THEN IF dd.some /\ ContainsKey(dd, item.s)
         THEN <<Dropdown(item.s)>>
         ELSE LET i == FindFile(files, item.s)
              IN IF i # 0 /\ RelKey(files[i].relative_path) # Str_index
                 THEN <<MarkdownFile(files[i].relative_path, files[i].title)>>
                 ELSE <<>>
    ELSE IF item.t = "map"
    THEN IF item.dropdown # NoVal
         THEN <<Dropdown(item.dropdown)>>
         ELSE ExternalLinkOf(item)
    ELSE <<>>

\* lines 1031-1065: the entries one item of page_order yields
PageOrderEntry(item, files, pid) ==
    IF item.t = "str"
    THEN LET i == FindFile(files, item.s)
         IN IF i # 0 /\ (\/ RelKey(files[i].relative_path) = Str_index
                         \/ /\ RelKey(files[i].relative_path) \notin pid
                            /\ item.s \notin pid)
            THEN <<MarkdownFile(files[i].relative_path, files[i].title)>>
            ELSE <<>>
    ELSE IF item.t = "map"
    THEN ExternalLinkOf(item)
    ELSE <<>>

\* lines 1075-1082: the entries one document yields without an order list
DefaultEntry(file, pid) ==
    IF RelKey(file.relative_path) = Str_index \/ RelKey(file.relative_path) \notin pid
    THEN <<MarkdownFile(file.relative_path, file.title)>>
    ELSE <<>>

\* The explicit entries, before any dropdown is appended (lines 974-1066
\* and 1075-1082).
ExplicitEntries(files, po, no, dd, pid) ==
    IF no.some
    THEN Flatten([i \in 1..Len(no.items) |-> NavbarOrderEntry(no.items[i], files, dd)])
    ELSE IF po.some
    THEN Flatten([i \in 1..Len(po.items) |-> PageOrderEntry(po.items[i], files, pid)])
    ELSE Flatten([i \in 1..Len(files) |-> DefaultEntry(files[i], pid)])

\* All orders in which the elements of a set can be iterated.
RECURSIVE Orders(_)
Orders(S) ==
    IF S = {} THEN {<<>>}
    ELSE UNION {{<<x>> \o rest : rest \in Orders(S \ {x})} : x \in S}

\* lines 1068-1072 and 1084-1088: `dropdowns_map.keys()` yields the keys in
\* the HashMap's iteration order, which is unspecified: any order.
DropdownEntries(dd, no) ==
    IF no.some \/ ~dd.some
    THEN {<<>>}
    ELSE LET names == {dd.entries[i].name : i \in 1..Len(dd.entries)}
         IN {[i \in 1..Len(ks) |-> Dropdown(ks[i])] : ks \in Orders(names)}

\* lines 972-1089: the values navbar_items can get
NavbarItems(files, po, no, dd, pid) ==
    {ExplicitEntries(files, po, no, dd, pid) \o ds : ds \in DropdownEntries(dd, no)}

\* lines 846-852: the title map
TitlesOf(files) ==
    [key \in {RelKey(files[i].relative_path) : i \in 1..Len(files)} |->
        files[CHOOSE i \in 1..Len(files) : RelKey(files[i].relative_path) = key].title]

\* All sequences whose i-th element is drawn from the i-th set.
RECURSIVE Choices(_)
Choices(sets) ==
    IF sets = <<>> THEN {<<>>}
    ELSE {<<x>> \o rest : x \in Head(sets), rest \in Choices(Tail(sets))}

\* The iteration order of a HashMap is unspecified but fixed while the map
\* is not modified, so every `markdown_titles.keys()` of a build yields the
\* same order.  `find` is reached only for a name that is not a key, and
\* then only keys ending in '/' + name can match: the keys in
\* subdirectories.  The orders in which keys() can yield those:
KeysOrders(titles) == Orders({k \in DOMAIN titles : Contains(k, <<"/">>)})

\* lines 448-449 and 459-460: `markdown_titles.keys().find(..)`, the first
\* matching key in the map's iteration order
MatchingTitleKeys(order, page_name) ==
    LET hits == {i \in 1..Len(order) : NameMatches(page_name, order[i])}
    IN IF hits = {} THEN {} ELSE {order[CHOOSE i \in hits : \A j \in hits : i <= j]}

\* A link of the rendered navbar.  `src` is the logo image of the root link.
NavLink(tag, href, active, text, src, links) ==
    [tag |-> tag, href |-> href, active |-> active, text |-> text, src |-> src, links |-> links]

\* lines 441-469: the links a bare string item of a sequence dropdown can yield
SequenceItemLinks(page_name, titles, order, asset_prefix) ==
    LET keys == MatchingTitleKeys(order, page_name)
        bases == IF page_name \in DOMAIN titles \/ keys = {}
                 THEN {page_name \o <<".">> \o Str_ext_html}
                 ELSE {k \o <<".">> \o Str_ext_html : k \in keys}
        texts == IF page_name \in DOMAIN titles THEN {titles[page_name]}
                 ELSE IF keys = {} THEN {page_name}
                 ELSE {titles[k] : k \in keys}
    IN {NavLink("item", asset_prefix \o b, FALSE, t, <<>>, <<>>) : b \in bases, t \in texts}

\* lines 423-436: the link of one pair of a mapping dropdown
MappingPairLink(pair, titles) ==
    NavLink("mapped", pair.url, FALSE,
            IF pair.key \in DOMAIN titles THEN titles[pair.key] ELSE pair.key,
            <<>>, <<>>)

\* lines 439-487: what one item of a sequence dropdown can yield
SequenceItemOutputs(item, titles, order, asset_prefix) ==
    IF item.t = "str"
    THEN {<<l>> : l \in SequenceItemLinks(item.s, titles, order, asset_prefix)}
    ELSE IF item.t = "map"
    THEN LET url == IF item.url = NoVal THEN <<>> ELSE item.url
             text == IF item.text = NoVal THEN <<>> ELSE item.text
         IN IF url # <<>> /\ text # <<>>
            THEN {<<NavLink("external-item", url, FALSE, text, <<>>, <<>>)>>}
            ELSE {<<>>}
    ELSE {<<>>}

\* lines 422-490: the links inside one dropdown
DropdownLinks(value, titles, order, asset_prefix) ==
    IF value.t = "mapping"
    THEN {[i \in 1..Len(value.pairs) |-> MappingPairLink(value.pairs[i], titles)]}
    ELSE IF value.t = "sequence"
    THEN {Flatten(c) : c \in Choices([i \in 1..Len(value.items) |->
                                SequenceItemOutputs(value.items[i], titles, order, asset_prefix)])}
    ELSE {<<>>}

\* lines 399: a page link is active for the page's key and for its file stem
IsActive(current_page, relative_path) ==
    \/ current_page = RelKey(relative_path)
    \/ current_page = FileStem(relative_path)

\* lines 382-497: what one navbar item can yield
ItemOutputs_NoIndexSkip(item, dd, titles, order, current_page, asset_prefix) ==
    IF item.kind = "MarkdownFile"
    THEN {<<NavLink("page", asset_prefix \o WithExtension(item.a, Str_ext_html),
                    IsActive(current_page, item.a), item.b, <<>>, <<>>)>>}
    ELSE IF item.kind = "ExternalLink"
    THEN {<<NavLink("external", item.a, FALSE, item.b, <<>>, <<>>)>>}
    ELSE IF dd.some /\ ContainsKey(dd, item.a)
    THEN {<<NavLink("dropdown", <<>>, FALSE, item.a, <<>>, ls)>> :
              ls \in DropdownLinks(GetDropdown(dd, item.a), titles, order, asset_prefix)}
    ELSE {<<>>}

ItemOutputs(item, dd, titles, order, current_page, asset_prefix) ==
    IF item.kind = "MarkdownFile"
    THEN IF RelKey(item.a) = Str_index
         THEN {<<>>}
         ELSE {<<NavLink("page", asset_prefix \o WithExtension(item.a, Str_ext_html),
                         IsActive(current_page, item.a), item.b, <<>>, <<>>)>>}
    ELSE IF item.kind = "ExternalLink"
    THEN {<<NavLink("external", item.a, FALSE, item.b, <<>>, <<>>)>>}
    ELSE IF dd.some /\ ContainsKey(dd, item.a)
    THEN {<<NavLink("dropdown", <<>>, FALSE, item.a, <<>>, ls)>> :
              ls \in DropdownLinks(GetDropdown(dd, item.a), titles, order, asset_prefix)}
    ELSE {<<>>}

\* lines 365-380: the logo link to the root page
RootLink(titles, current_page, asset_prefix) ==
    NavLink("root",
            IF asset_prefix = <<>> THEN Str_index \o <<".">> \o Str_ext_html
            ELSE asset_prefix \o Str_index \o <<".">> \o Str_ext_html,
            current_page = Str_index,
            IF Str_index \in DOMAIN titles THEN titles[Str_index] ELSE Str_IDEEP,
            asset_prefix \o Str_logo, <<>>)

\* generate_navbar: the navbars it can return, each the sequence of its
\* list items
GenerateNavbar(items, dd, titles, order, current_page, asset_prefix) ==
    {<<RootLink(titles, current_page, asset_prefix)>> \o Flatten(c) :
        c \in Choices([i \in 1..Len(items) |->
                ItemOutputs(items[i], dd, titles, order, current_page, asset_prefix)])}

(***************************************************************************)
(* The documents and configurations the model draws                        *)
(***************************************************************************)
Path_index == Str_index \o <<".">> \o Str_ext_md
Path_a == <<"a", ".", "m", "d">>
Path_b == <<"b", ".", "m", "d">>
Path_c == <<"c", ".", "m", "d">>
Path_n_a == <<"n", "/", "a", ".", "m", "d">>
Path_m_n_a == <<"m", "/", "n", "/", "a", ".", "m", "d">>

\* find_markdown_files, lines 804-811: the title is the front matter's or,
\* without one, the file stem; the model gives every document a title.
Discovered(path) == File(path, <<"T">> \o FileStem(path))

Name_R == <<"R">>
Name_S == <<"S">>
Url_x == <<"https://x">>
Url_y == <<"https://y">>
Text_x == <<"X">>

ExternalItem == MapItem(NoVal, Url_x, Text_x)

NoOrder == [some |-> FALSE, items |-> <<>>]
Order(items) == [some |-> TRUE, items |-> items]

PageOrderItems == {StrItem(<<"a">>), StrItem(<<"b">>), StrItem(<<"n", "/", "a">>), ExternalItem}

NavbarOrderItems ==
    {StrItem(<<"a">>), StrItem(Str_index), StrItem(Name_R),
     MapItem(Name_S, NoVal, NoVal), ExternalItem}

PageOrders == {NoOrder} \cup {Order(items) : items \in SeqsUpTo(PageOrderItems, MaxOrderLen)}

NavbarOrders == {NoOrder} \cup {Order(items) : items \in SeqsUpTo(NavbarOrderItems, MaxOrderLen)}

\* The order lists of a configuration that has both, or one, or none.
OrderPairs ==
    {<<po, NoOrder>> : po \in PageOrders}
    \cup {<<NoOrder, no>> : no \in NavbarOrders}
    \cup {<<Order(<<StrItem(<<"n", "/", "a">>)>>), Order(items)>> :
              items \in SeqsUpTo(NavbarOrderItems, MaxOrderLen - 1)}
    \cup {<<Order(<<StrItem(Str_index), StrItem(<<"a">>)>>), NoOrder>>,
          <<Order(<<StrItem(<<"a">>), StrItem(Str_index)>>), NoOrder>>}

Pair(key, url) == [key |-> key, url |-> url]

SequenceDropdowns ==
    {SequenceValue(<<StrItem(<<"a">>)>>),
     SequenceValue(<<StrItem(<<"b">>), ExternalItem>>),
     SequenceValue(<<StrItem(<<"n", "/", "a">>)>>)}

MappingDropdowns ==
    {MappingValue(<<Pair(<<"a">>, Url_y)>>),
     MappingValue(<<Pair(<<"b">>, Url_y), Pair(<<"x">>, Url_x)>>)}

Entry(name, value) == [name |-> name, value |-> value]

NoDropdowns == [some |-> FALSE, entries |-> <<>>]

DropdownConfigs ==
    {NoDropdowns}
    \cup {[some |-> TRUE, entries |-> <<Entry(Name_R, r)>>] : r \in SequenceDropdowns}
    \cup {[some |-> TRUE, entries |-> <<Entry(Name_S, m)>>] : m \in MappingDropdowns}
    \cup {[some |-> TRUE, entries |-> <<Entry(Name_R, r),
                                         Entry(Name_S, MappingValue(<<Pair(<<"a">>, Url_y)>>))>>] :
              r \in SequenceDropdowns}

\* Directory listings: every order of every set of these documents, for the
\* configurations that only order the documents ...
SortDocs == {Path_index, Path_a, Path_b, Path_c, Path_n_a}

SortListings == UNION {Orders(S) : S \in SUBSET SortDocs}

\* ... and one listing of every set of these documents, for the
\* configurations with a navbar_order and dropdowns.
NavDocs == <<Path_n_a, Path_index, Path_m_n_a, Path_a>>

NavListings ==
    {SelectSeq(NavDocs, LAMBDA p : p \in S) : S \in SUBSET {NavDocs[i] : i \in 1..Len(NavDocs)}}

NavInit ==
    /\ \/ /\ \E l \in SortListings : markdown_files = [i \in 1..Len(l) |-> Discovered(l[i])]
          /\ page_order \in PageOrders
          /\ navbar_order = NoOrder
          /\ dropdowns = NoDropdowns
       \/ /\ \E l \in NavListings : markdown_files = [i \in 1..Len(l) |-> Discovered(l[i])]
          /\ \E op \in OrderPairs : page_order = op[1] /\ navbar_order = op[2]
          /\ dropdowns \in DropdownConfigs
    /\ markdown_titles = TitlesOf(markdown_files)
    /\ titles_order \in KeysOrders(markdown_titles)
    /\ pages_in_dropdowns = {}
    /\ navbar_items = <<>>
    /\ pc = "sort"
    /\ page = 1
    /\ rendered = <<>>
    /\ MathIdle
    /\ LinksIdle
    /\ FrontIdle

\* lines 877-932
SortByPageOrder ==
    /\ pc = "sort"
    /\ page_order.some
    /\ markdown_files' = SortWithPageOrder(markdown_files, page_order)
    /\ pc' = "dropdowns"
    /\ UNCHANGED <<markdown_titles, titles_order, page_order, navbar_order, dropdowns, pages_in_dropdowns,
                   navbar_items, page, rendered, mathVars, linkVars, frontVars>>

\* lines 933-949
SortAlphabetically ==
    /\ pc = "sort"
    /\ ~page_order.some
    /\ markdown_files' = SortDefault(markdown_files)
    /\ pc' = "dropdowns"
    /\ UNCHANGED <<markdown_titles, titles_order, page_order, navbar_order, dropdowns, pages_in_dropdowns,
                   navbar_items, page, rendered, mathVars, linkVars, frontVars>>

\* lines 951-969
CollectDropdownPages ==
    /\ pc = "dropdowns"
    /\ pages_in_dropdowns' = CollectPagesInDropdowns(dropdowns)
    /\ pc' = "navbar"
    /\ UNCHANGED <<markdown_files, markdown_titles, titles_order, page_order, navbar_order, dropdowns,
                   navbar_items, page, rendered, mathVars, linkVars, frontVars>>

BuildNavbarItems ==
    /\ pc = "navbar"
    /\ navbar_items' \in NavbarItems(markdown_files, page_order, navbar_order, dropdowns,
                                     pages_in_dropdowns)
    /\ pc' = "render"
    /\ page' = 1
    /\ UNCHANGED <<markdown_files, markdown_titles, titles_order, page_order, navbar_order, dropdowns,
                   pages_in_dropdowns, rendered, mathVars, linkVars, frontVars>>

\* lines 974-1027
BuildFromNavbarOrder == navbar_order.some /\ BuildNavbarItems

\* lines 1028-1072
BuildFromPageOrder == ~navbar_order.some /\ page_order.some /\ BuildNavbarItems

\* lines 1073-1089
BuildFromFiles == ~navbar_order.some /\ ~page_order.some /\ BuildNavbarItems

\* lines 1101-1128: one iteration of the loop over markdown_files
RenderPage_ConsumingEntries ==
    /\ pc = "render"
    /\ page <= Len(markdown_files)
    /\ LET relative_path == markdown_files[page].relative_path
           asset_prefix == CalculateAssetPrefix(relative_path)
       IN \E navbar \in GenerateNavbar(navbar_items, dropdowns, markdown_titles, titles_order,
                                       RelKey(relative_path), asset_prefix) :
             rendered' = Append(rendered, [relative_path |-> relative_path,
                                           asset_prefix |-> asset_prefix,
                                           navbar |-> navbar])
    /\ navbar_items' = IF navbar_items = <<>> THEN <<>> ELSE Tail(navbar_items)
    /\ page' = page + 1
    /\ UNCHANGED <<markdown_files, markdown_titles, titles_order, page_order, navbar_order,
                   dropdowns, pages_in_dropdowns, pc, mathVars, linkVars, frontVars>>

RenderPage ==
    /\ pc = "render"
    /\ page <= Len(markdown_files)
    /\ LET relative_path == markdown_files[page].relative_path
           asset_prefix == CalculateAssetPrefix(relative_path)
       IN \E navbar \in GenerateNavbar(navbar_items, dropdowns, markdown_titles, titles_order,
                                       RelKey(relative_path), asset_prefix) :
             rendered' = Append(rendered, [relative_path |-> relative_path,
                                           asset_prefix |-> asset_prefix,
                                           navbar |-> navbar])
    /\ page' = page + 1
    /\ UNCHANGED <<markdown_files, markdown_titles, titles_order, page_order, navbar_order, dropdowns,
                   pages_in_dropdowns, navbar_items, pc, mathVars, linkVars, frontVars>>

\* the loop over markdown_files ends
BuildDone ==
    /\ pc = "render"
    /\ page > Len(markdown_files)
    /\ pc' = "done"
    /\ UNCHANGED <<markdown_files, markdown_titles, titles_order, page_order, navbar_order, dropdowns,
                   pages_in_dropdowns, navbar_items, page, rendered, mathVars, linkVars, frontVars>>

Next ==
    \/ SortByPageOrder
    \/ SortAlphabetically
    \/ CollectDropdownPages
    \/ BuildFromNavbarOrder
    \/ BuildFromPageOrder
    \/ BuildFromFiles
    \/ RenderPage
    \/ BuildDone

Spec == NavInit /\ [][Next]_vars

(***************************************************************************)
(* Claims about main and generate_navbar                                   *)
(***************************************************************************)
\* The slugs of the documents, in processing order.
Keys == [i \in 1..Len(markdown_files) |-> RelKey(markdown_files[i].relative_path)]

Sorted == pc \in {"dropdowns", "navbar", "render", "done"}

NavbarBuilt == pc \in {"render", "done"}

\* a comes before b in lexicographic order of bytes
LexLess(a, b) ==
    \E k \in 1..(Len(b)) :
        /\ \A j \in 1..(k - 1) : j <= Len(a) /\ a[j] = b[j]
        /\ \/ k = Len(a) + 1
           \/ k <= Len(a) /\ Byte(a[k]) < Byte(b[k])

\* The list positions at which page_order names the slug: by the slug
\* itself or by its final path segments.
NamedAt(key) ==
    {i \in 1..Len(page_order.items) :
        /\ page_order.items[i].t = "str"
        /\ \/ page_order.items[i].s = key
           \/ EndsWith(key, <<"/">> \o page_order.items[i].s)}

FirstNamedAt(key) == CHOOSE i \in NamedAt(key) : \A j \in NamedAt(key) : i <= j

SequenceSlugs(dd) ==
    {it.s : it \in UNION {{e.value.items[j] : j \in 1..Len(e.value.items)} :
                            e \in {dd.entries[i] : i \in 1..Len(dd.entries)}}}
        \ {NoVal}

\* The keys of mapping-valued dropdowns.
MappingKeys(dd) ==
    UNION {{e.value.pairs[j].key : j \in 1..Len(e.value.pairs)} :
              e \in {dd.entries[i] : i \in 1..Len(dd.entries)}}

\* The slugs of the top-level page-link entries, index left out.
PageLinkSlugs(items) ==
    {RelKey(items[i].a) : i \in {i \in 1..Len(items) : items[i].kind = "MarkdownFile"}}
        \ {Str_index}

\* C8: for every configuration, a non-index document whose slug is a bare
\* string item of a sequence dropdown is not a top-level page-link entry.
C8_SequenceDropdownSuppresses ==
    NavbarBuilt => PageLinkSlugs(navbar_items) \cap SequenceSlugs(dropdowns) = {}

\* The page-link entries of a navigation entry list, in order.
PageLinks(items) == SelectSeq(items, LAMBDA it : it.kind = "MarkdownFile")

\* The configuration with the same dropdowns whose mappings list nothing.
WithoutMappingKeys(dd) ==
    [some |-> dd.some,
     entries |-> [i \in 1..Len(dd.entries) |->
        Entry(dd.entries[i].name,
              IF dd.entries[i].value.t = "mapping"
              THEN MappingValue(<<>>)
              ELSE dd.entries[i].value)]]

\* C9: being a key of a mapping dropdown never suppresses a slug: the
\* page-link entries are those of the configuration whose mapping dropdowns
\* list nothing.
C9_MappingDropdownKeepsPages ==
    NavbarBuilt =>
        LET dd0 == WithoutMappingKeys(dropdowns)
        IN PageLinks(navbar_items) \in
              {PageLinks(items) : items \in
                  NavbarItems(markdown_files, page_order, navbar_order, dd0,
                              CollectPagesInDropdowns(dd0))}

\* C9, its case: without navbar_order, next to a sequence dropdown, a
\* document that is a key of a mapping dropdown is a page-link entry.
C9_Witness ==
    /\ pc = "done"
    /\ ~navbar_order.some
    /\ pages_in_dropdowns # {}
    /\ PageLinkSlugs(navbar_items) \cap MappingKeys(dropdowns) # {}

\* The number of directory segments before the file name.
DirSegments(path) == Cardinality({i \in 1..Len(path) : path[i] = "/"})

\* s is n repetitions of "../"
IsUps(s, n) ==
    /\ Len(s) = 3 * n
    /\ \A i \in 1..Len(s) : s[i] = (IF i % 3 = 0 THEN "/" ELSE ".")

\* The paths from the site root a bare item of a sequence dropdown can
\* stand for: the document of that slug, else a document with that final
\* segment, else the name itself.
ItemTargets(page_name) ==
    LET keys == DOMAIN markdown_titles
        bySegment == {k \in keys : EndsWith(k, <<"/">> \o page_name)}
    IN IF page_name \in keys \/ bySegment = {} THEN {page_name} ELSE bySegment

Dot_html == <<".", "h", "t", "m", "l">>

\* The links of navbar nb with the given tag, in order.
LinksTagged(nb, tag) == SelectSeq(nb, LAMBDA l : l.tag = tag)

\* The bare string items of the dropdown called name, in order.
BareItems(name) ==
    SelectSeq(GetDropdown(dropdowns, name).items, LAMBDA it : it.t = "str")

\* C10: for a page with D directory segments before its file name the
\* prefix is D repetitions of '../', and in the page's navbar the root
\* link, the logo, every top-level page link and every bare-slug item of a
\* sequence dropdown carry that prefix followed by the target's path from
\* the site root.
C10_DepthPrefix ==
    \A r \in {rendered[i] : i \in 1..Len(rendered)} :
        LET ups == Repeat(Str_up, DirSegments(r.relative_path))
            pages == LinksTagged(r.navbar, "page")
            entries == SelectSeq(PageLinks(navbar_items),
                                 LAMBDA it : RelKey(it.a) # Str_index)
            dds == LinksTagged(r.navbar, "dropdown")
        IN /\ IsUps(r.asset_prefix, DirSegments(r.relative_path))
           /\ r.navbar[1].tag = "root"
           /\ r.navbar[1].href = ups \o Str_index \o Dot_html
           /\ r.navbar[1].src = ups \o Str_logo
           /\ Len(pages) = Len(entries)
           /\ \A k \in 1..Len(pages) :
                 pages[k].href = ups \o RelKey(entries[k].a) \o Dot_html
           /\ \A k \in 1..Len(dds) :
                 LET items == LinksTagged(dds[k].links, "item")
                     bare == BareItems(dds[k].text)
                 IN /\ Len(items) = Len(bare)
                    /\ \A j \in 1..Len(items) :
                          \E t \in ItemTargets(bare[j].s) :
                              items[j].href = ups \o t \o Dot_html

\* C10, its case: a page two directories deep has been rendered with a
\* top-level page link and a sequence dropdown that lists a bare slug.
C10_Witness ==
    \E i \in 1..Len(rendered) :
        /\ DirSegments(rendered[i].relative_path) = 2
        /\ LinksTagged(rendered[i].navbar, "page") # <<>>
        /\ \E k \in 1..Len(rendered[i].navbar) :
              /\ rendered[i].navbar[k].tag = "dropdown"
              /\ LinksTagged(rendered[i].navbar[k].links, "item") # <<>>

\* The links of navbar nb that carry the active class: the root link and
\* the top-level page links are the only ones that can.
ActiveLinks(nb) == SelectSeq(nb, LAMBDA l : l.active)

\* The page has a top-level page-link entry of its own.
HasOwnEntry(relative_path) ==
    \E i \in 1..Len(navbar_items) :
        /\ navbar_items[i].kind = "MarkdownFile"
        /\ RelKey(navbar_items[i].a) = RelKey(relative_path)

\* C11: in the navbar rendered for page P at most one link is active, and
\* none is when P is neither the root page nor a top-level page-link entry,
\* also when an entry shares P's file name in another directory or an order
\* list names a page twice.
C11_AtMostOneActive ==
    \A r \in {rendered[i] : i \in 1..Len(rendered)} :
        /\ Len(ActiveLinks(r.navbar)) <= 1
        /\ (RelKey(r.relative_path) # Str_index /\ ~HasOwnEntry(r.relative_path))
               => ActiveLinks(r.navbar) = <<>>

\* C12: the output is a function of the documents and the configuration
\* alone: every navigation entry list the build can produce from its input
\* is the one it produced, and every target the link rewriter can choose for
\* an href is the one it chose, whatever the iteration order of the hash
\* containers.
C12_OutputDeterminedByInput ==
    /\ NavbarBuilt =>
          \A items \in NavbarItems(markdown_files, page_order, navbar_order, dropdowns,
                                   pages_in_dropdowns) : items = navbar_items
    /\ lpc = "done" =>
          \A k \in 1..Len(replacements) :
              \A c \in {c \in 1..Len(caps) : caps[c].start = replacements[k].start} :
                  LET sp == SplitHref(caps[c].href)
                  IN ~EndsWith(sp.base, Str_md) =>
                        \A matched \in MatchedPaths(markdown_file_names, sp.base) :
                            replacements[k].new_link =
                                NewLink(matched \o Str_html \o sp.fq, caps[c].attrs)

\* The dropdown entries of the configuration, in the order its keys are
\* written.
DropdownsAsWritten(dd) == [i \in 1..Len(dd.entries) |-> Dropdown(dd.entries[i].name)]

\* The entries of a navigation entry list that are not dropdowns, in order.
NonDropdowns(items) == SelectSeq(items, LAMBDA it : it.kind # "Dropdown")

\* C13: without navbar_order every configured dropdown is appended exactly
\* once, after all page and external-link entries, in the order the keys
\* are written in the configuration.
C13_DropdownsAppendedInKeyOrder ==
    (NavbarBuilt /\ ~navbar_order.some) =>
        navbar_items = NonDropdowns(navbar_items) \o DropdownsAsWritten(dropdowns)

\* C14: with both order lists configured the navigation entry list is the
\* one the same navbar_order gives with page_order removed (the documents
\* then being in their default order): page_order adds no entry and does
\* not change the document an entry of navbar_order resolves to.
C14_NavbarOrderAlone ==
    (NavbarBuilt /\ navbar_order.some /\ page_order.some) =>
        navbar_items \in NavbarItems(SortDefault(markdown_files), NoOrder, navbar_order,
                                     dropdowns, pages_in_dropdowns)

(***************************************************************************)
(* extract_frontmatter                                                     *)
(***************************************************************************)
\* "---\n", the text both `starts_with` and `find` look for
Str_marker == <<"-", "-", "-", "\n">>

\* The documents the model draws: at most MaxFrontPieces pieces, each a
\* marker or a single character.
FrontPieces == {Str_marker, <<"-">>, <<"\n">>, <<"t">>}

Contents == {Flatten(ps) : ps \in SeqsUpTo(FrontPieces, MaxFrontPieces)}

\* str.find(p): the byte offset of the first occurrence, counted from 0;
\* a negative number stands for None
FindStr(s, p) ==
    IF Contains(s, p)
    THEN (CHOOSE i \in 1..(Len(s) + 1) :
              OccursAt(s, p, i) /\ \A j \in 1..(i - 1) : ~OccursAt(s, p, j)) - 1
    ELSE 0 - 1

\* &s[from..to] with offsets counted from 0; NoVal stands for the panic of
\* a range that is out of bounds
Slice(s, from, to) ==
    IF from <= to /\ to <= Len(s) THEN SubSeq(s, from + 1, to) ELSE NoVal

\* Some(FrontMatter), as deserialized from the text between the markers,
\* and None
FrontMatter(frontmatter_str) == [some |-> TRUE, src |-> frontmatter_str]

NoFrontMatter == [some |-> FALSE, src |-> <<>>]

\* line 23: the body keeps the closing marker
BodyAfter_KeepMarker(text, end) == Slice(text, end + 4, Len(text))

\* line 23
BodyAfter(text, end) == Slice(text, end + 8, Len(text))

FrontInit ==
    /\ content \in Contents
    /\ from_str = "none"
    /\ frontmatter = NoFrontMatter
    /\ markdown_content = <<>>
    /\ fpc = "call"
    /\ MathIdle
    /\ LinksIdle
    /\ NavIdle

\* The function returns (fm, text), or panics when a slice it took was out
\* of bounds.
Return(in_bounds, fm, text) ==
    IF in_bounds
    THEN /\ fpc' = "done"
         /\ frontmatter' = fm
         /\ markdown_content' = text
    ELSE /\ fpc' = "panic"
         /\ frontmatter' = NoFrontMatter
         /\ markdown_content' = <<>>

\* lines 20 and 32-34: the text does not start with the marker
NoOpeningMarker ==
    /\ fpc = "call"
    /\ ~StartsWith(content, Str_marker)
    /\ Return(TRUE, NoFrontMatter, content)
    /\ UNCHANGED <<content, from_str, mathVars, linkVars, navVars>>

\* lines 21 and 29-31: `find` returns None
NoClosingMarker ==
    /\ fpc = "call"
    /\ StartsWith(content, Str_marker)
    /\ FindStr(Slice(content, 4, Len(content)), Str_marker) < 0
    /\ Return(TRUE, NoFrontMatter, content)
    /\ UNCHANGED <<content, from_str, mathVars, linkVars, navVars>>

\* lines 21-26: the text between the markers deserializes
Deserialized ==
    /\ fpc = "call"
    /\ StartsWith(content, Str_marker)
    /\ LET end == FindStr(Slice(content, 4, Len(content)), Str_marker)
       IN /\ end >= 0
          /\ LET frontmatter_str == Slice(content, 4, end + 4)
                 body == BodyAfter(content, end)
             IN Return(frontmatter_str # NoVal /\ body # NoVal,
                       FrontMatter(frontmatter_str), body)
    /\ from_str' = "ok"
    /\ UNCHANGED <<content, mathVars, linkVars, navVars>>

\* lines 21-27: the text between the markers does not deserialize
DeserializeError ==
    /\ fpc = "call"
    /\ StartsWith(content, Str_marker)
    /\ LET end == FindStr(Slice(content, 4, Len(content)), Str_marker)
       IN /\ end >= 0
          /\ LET frontmatter_str == Slice(content, 4, end + 4)
                 body == BodyAfter(content, end)
             IN Return(frontmatter_str # NoVal /\ body # NoVal,
                       NoFrontMatter, content)
    /\ from_str' = "err"
    /\ UNCHANGED <<content, mathVars, linkVars, navVars>>

FrontNext ==
    \/ NoOpeningMarker
    \/ NoClosingMarker
    \/ Deserialized
    \/ DeserializeError

SpecFront == FrontInit /\ [][FrontNext]_vars

(***************************************************************************)
(* Claims about extract_frontmatter                                        *)
(***************************************************************************)
\* The text begins with the opening marker.
Opens(text) == Len(text) >= 4 /\ SubSeq(text, 1, 4) = Str_marker

\* The places after the opening marker where a closing marker begins.
ClosingAt(text) ==
    {i \in 5..Len(text) : i + 3 <= Len(text) /\ SubSeq(text, i, i + 3) = Str_marker}

\* C15: extract_frontmatter returns no metadata and the whole text when the
\* text does not begin with '---\n', or no closing marker follows, or the
\* region between them does not deserialize; only when it deserializes does
\* it return the metadata of that region and the text after the first
\* closing marker; and it never panics.
C15_FrontmatterFailsOpen ==
    /\ fpc # "panic"
    /\ fpc = "done" =>
          IF Opens(content) /\ ClosingAt(content) # {} /\ from_str = "ok"
          THEN LET close == CHOOSE i \in ClosingAt(content) : \A j \in ClosingAt(content) : i <= j
               IN /\ frontmatter = FrontMatter(SubSeq(content, 5, close - 1))
                  /\ markdown_content = SubSeq(content, close + 4, Len(content))
          ELSE /\ frontmatter = NoFrontMatter
               /\ markdown_content = content
    /\ fpc = "done" => (from_str # "none" <=> (Opens(content) /\ ClosingAt(content) # {}))

\* C15, its case: a text with metadata, a closing marker and a body that
\* itself contains a marker has been split after the first closing marker.
C15_Witness ==
    /\ fpc = "done"
    /\ frontmatter.some
    /\ frontmatter.src # <<>>
    /\ Contains(markdown_content, Str_marker)

RECURSIVE Unprefixed(_, _)
Unprefixed(l, prefix) ==
    [tag |-> l.tag,
     text |-> l.text,
     href |-> IF l.tag \in {"root", "page", "item"}
              THEN SubSeq(l.href, Len(prefix) + 1, Len(l.href)) ELSE l.href,
     src |-> IF l.tag = "root" THEN SubSeq(l.src, Len(prefix) + 1, Len(l.src)) ELSE l.src,
     links |-> [k \in 1..Len(l.links) |-> Unprefixed(l.links[k], prefix)]]

\* The navbar of a rendered page, page-independent part.
Shape(r) == [k \in 1..Len(r.navbar) |-> Unprefixed(r.navbar[k], r.asset_prefix)]

\* The inputs of every page render.
NavModel == <<markdown_files, markdown_titles, titles_order, navbar_items>>

\* C17: the document set, the title map and the navigation entry list are
\* complete before the first page is rendered and no render changes them;
\* every page is rendered against the same entry list in the same order,
\* and the navbars of two pages differ only in depth prefix and active flag.
C17_BuiltOnceThenReadOnly ==
    /\ [](rendered # <<>> => NavbarBuilt)
    /\ [][(rendered' # rendered \/ rendered # <<>>) => NavModel' = NavModel]_vars
    /\ [](\A i \in 1..Len(rendered) :
            /\ rendered[i].relative_path = markdown_files[i].relative_path
            /\ rendered[i].navbar \in
                  GenerateNavbar(navbar_items, dropdowns, markdown_titles, titles_order,
                                 RelKey(rendered[i].relative_path), rendered[i].asset_prefix)
            /\ Shape(rendered[i]) = Shape(rendered[1]))

\* C17, its case: two pages at different depths have been rendered, one of
\* them with an active page link, from a list with a dropdown that lists a
\* page.
C17_Witness ==
    /\ pc = "done"
    /\ \E i, j \in 1..Len(rendered) :
          /\ rendered[i].asset_prefix # rendered[j].asset_prefix
          /\ ActiveLinks(rendered[i].navbar) # ActiveLinks(rendered[j].navbar)
          /\ \E k \in 1..Len(rendered[i].navbar) :
                /\ rendered[i].navbar[k].tag = "dropdown"
                /\ LinksTagged(rendered[i].navbar[k].links, "item") # <<>>

(***************************************************************************)
(* More claims about preprocess_math                                       *)
(***************************************************************************)
\* The whole input was scanned as one math span.
WholeInputIsOneSpan == mode = "done" /\ Len(result) = 1 /\ result[1].kind # "ch"

\* C18: under the protect-and-restore strategy the text recovered for a
\* math span equals the scanned span exactly, delimiters and internal
\* whitespace included; for an input that is one span, the text the output
\* keeps of it is the input.
C18_ProtectAndRestore ==
    WholeInputIsOneSpan => result[1].tex = md

\* The opener and the terminator of the span being scanned.
Opener(m) ==
    CASE m = "display" -> <<"$", "$">>
      [] m = "paren" -> <<"\\", "(">>
      [] m = "bracket" -> <<"\\", "[">>
      [] m = "inline" -> <<"$">>

Terminator(m) ==
    CASE m = "display" -> <<"$", "$">>
      [] m = "paren" -> <<"\\", ")">>
      [] m = "bracket" -> <<"\\", "]">>
      [] m = "inline" -> <<"$">>

\* This step ends a span opened by a two-character opener and substitutes
\* what the renderer returned for it.
ClosesSpan ==
    /\ mode \in {"display", "paren", "bracket"}
    /\ mode' = "top"
    /\ Len(result') = Len(result) + 1
    /\ result'[Len(result')].kind # "ch"

\* The span that ends in this step runs from its opener, at index `from`,
\* to the first occurrence of its terminator after the opener, which is at
\* pos; scanning resumes right after the terminator; and the text the
\* renderer was given, when it returned markup, is passed(between).
SpanEndsAtFirstTerminator(passed(_)) ==
    LET from == pos - Len(tex) - 2
        between == SubSeq(md, from + 2, pos - 1)
        out == result'[Len(result')]
    IN /\ OccursAt(md, Opener(mode), from)
       /\ OccursAt(md, Terminator(mode), pos)
       /\ \A i \in (from + 2)..(pos - 1) : ~OccursAt(md, Terminator(mode), i)
       /\ out.display = (mode # "paren")
       /\ out.kind = "katex" => out.tex = passed(between)
       /\ pos' = pos + 2

\* At top level a '$' immediately followed by '$' opens a display span.
DollarDollarOpensDisplay ==
    (mode = "top" /\ OccursAt(md, <<"$", "$">>, pos)) =>
        (mode' = "display" /\ pos' = pos + 2 /\ result' = result)

Exactly(t) == t

\* C19: '$' followed by '$' always opens a display span; a span opened by
\* '$$', backslash-paren or backslash-bracket ends at the first later
\* occurrence of its terminator; the TeX passed to the renderer is exactly
\* the text between opener and terminator; scanning resumes right after
\* the terminator.
C19_TexExactlyBetween ==
    [][/\ DollarDollarOpensDisplay
       /\ ClosesSpan => SpanEndsAtFirstTerminator(Exactly)]_vars

\* C19 as amended: the same, the TeX passed to the renderer being the text
\* between opener and terminator without its leading and trailing whitespace.
C19_TexTrimmedBetween ==
    [][/\ DollarDollarOpensDisplay
       /\ ClosesSpan => SpanEndsAtFirstTerminator(Trim)]_vars

\* C19, its case: a span whose text between the delimiters starts with
\* whitespace has been rendered, after a '$$' that a third '$' follows or a
\* terminator character that did not terminate.
C19_Witness ==
    /\ mode = "done"
    /\ \E k \in 1..Len(result) : result[k].kind = "katex"
    /\ \/ OccursAt(md, <<"$", "$", "\n">>, 1)
       \/ OccursAt(md, <<"\\", "(", "\n">>, 1)
       \/ OccursAt(md, <<"\\", "[", "\n">>, 1)

InSpan(m) == m \in {"display", "inline", "paren", "bracket"}

\* A measure every step of the scan increases; it is at most
\* 2 * Len(md) + 4, so the scan ends.
Progress ==
    2 * pos + (CASE mode = "top" -> 1 [] mode = "done" -> 2 [] OTHER -> 0)

\* a is b with some elements left out
RECURSIVE IsSubseq(_, _)
IsSubseq(a, b) ==
    IF a = <<>> THEN TRUE
    ELSE IF b = <<>> THEN FALSE
    ELSE IF Head(a) = Head(b) THEN IsSubseq(Tail(a), Tail(b))
    ELSE IsSubseq(a, Tail(b))

\* What this step adds to the output, which it only ever extends.
Emitted == SubSeq(result', Len(result) + 1, Len(result'))

\* The step emits the text as literal characters, each unchanged and in
\* the order of the text.
EmitsLiterally(text) ==
    /\ \A k \in 1..Len(Emitted) : Emitted[k].kind = "ch"
    /\ IsSubseq(Lit(text), Emitted)

\* What one step of the scan does with the characters it consumes.
StepIsSinglePass ==
    LET consumed == SubSeq(md, pos, pos' - 1)
        from == pos - Len(tex) - Len(Opener(mode))
    IN /\ pos' >= pos
       /\ pos' <= Len(md) + 1
       /\ md' = md
       /\ result = SubSeq(result', 1, Len(result))
       /\ (mode = "top" /\ mode' = "top") =>
             (Len(consumed) = 1 /\ EmitsLiterally(consumed))
       /\ (mode = "top" /\ InSpan(mode')) =>
             (consumed = Opener(mode') /\ tex' = <<>> /\ Emitted = <<>>)
       /\ (mode = "top" /\ mode' = "done") =>
             (pos > Len(md) /\ consumed = <<>> /\ Emitted = <<>>)
       /\ (InSpan(mode) /\ mode' = mode) =>
             (Len(consumed) = 1 /\ tex' = tex \o consumed /\ Emitted = <<>>)
       /\ (InSpan(mode) /\ mode' # mode) =>
             /\ mode' = "top"
             /\ tex = SubSeq(md, from + Len(Opener(mode)), pos - 1)
             /\ \/ Len(Emitted) = 1 /\ Emitted[1].kind # "ch"
                \/ EmitsLiterally(SubSeq(md, from, pos' - 1))

\* C20: the scan is one left-to-right pass that ends on every input: each
\* step consumes the next characters once; inside a span every character,
\* an opener too, is content of that span; every character outside a
\* recognized span is in the output unchanged and in its original order;
\* and an input with no '$' and no backslash is returned unchanged.
C20_SingleLeftToRightPass ==
    /\ [][Progress' > Progress /\ StepIsSinglePass]_vars
    /\ []((mode = "done" /\ Plain(md)) => result = Lit(md))

\* C20, its case: after a copied character an inline span that contains a
\* backslash-paren opener was recognized, or a '$$' opener without
\* terminator was put back with the backslash-bracket opener it contained.
C20_Witness ==
    /\ mode = "done"
    /\ \/ /\ md = <<"a", "$", "\\", "(", "$">>
          /\ Len(result) = 2
       \/ /\ md = <<"a", "$", "$", "\\", "[">>
          /\ result = Lit(md)

(***************************************************************************)
(* More claims about convert_internal_links                                *)
(***************************************************************************)
\* The href a replacement writes.
NewHrefOf(r) == Captures(r.new_link)[1].href

\* The anchor of the original HTML a replacement is for.
CapAt(start) == caps[CHOOSE c \in 1..Len(caps) : caps[c].start = start]

\* The original HTML from index i on, with the href value of the anchor of
\* each replacement from the k-th on replaced by the new href, and nothing
\* else changed.
RECURSIVE HrefsReplaced(_, _)
HrefsReplaced(i, k) ==
    IF k > Len(replacements) THEN SubSeq(html, i, Len(html))
    ELSE LET r == replacements[k]
         IN SubSeq(html, i, r.start) \o NewHrefOf(r)
                \o HrefsReplaced(r.start + 1 + Len(CapAt(r.start).href), k + 1)

\* C21: all matches and replacements are computed from the original HTML
\* before anything is changed, and the result is the original HTML with the
\* href value of each rewritable anchor replaced: every byte outside the
\* rewritten href values, the attributes after href, and every anchor that
\* matches no rule are unchanged and in the same order.
C21_OnlyHrefValuesChange ==
    /\ lpc = "scan" => link_result = html
    /\ lpc = "done" => link_result = HrefsReplaced(1, 1)

(***************************************************************************)
(* More claims about the document order                                    *)
(***************************************************************************)
Reverse(seq) == [i \in 1..Len(seq) |-> seq[Len(seq) + 1 - i]]

\* C22: sorting by page_order, two distinct non-index documents named in
\* the list never have the same list position, the comparator never
\* returns Equal for two distinct documents, and the resulting order does
\* not depend on the order in which the documents were discovered.
C22_PositionsUnique ==
    (Sorted /\ page_order.some) =>
        /\ \A i, j \in 1..Len(markdown_files) :
              LET a == markdown_files[i]
                  b == markdown_files[j]
                  a_key == RelKey(a.relative_path)
                  b_key == RelKey(b.relative_path)
              IN (i # j /\ a_key # Str_index /\ b_key # Str_index) =>
                    /\ (Position(page_order.items, a_key) # 0
                           /\ Position(page_order.items, b_key) # 0)
                          => Position(page_order.items, a_key)
                                # Position(page_order.items, b_key)
                    /\ CmpByOrder(page_order.items, a, b) # Equal
        /\ SortWithPageOrder(Reverse(markdown_files), page_order) = markdown_files

\* This step ends a span of any of the four forms and substitutes what the
\* renderer returned for it, markup or the error element.
Substitutes ==
    /\ InSpan(mode)
    /\ mode' = "top"
    /\ Len(Emitted) = 1
    /\ Emitted[1].kind # "ch"

\* C23: when the renderer fails for a recognized span the span is replaced
\* by an error element, pre for a display span and code for an inline one,
\* that holds the span's TeX as scanned; and whatever the renderer returned
\* the scan goes on from the same place in the same way: the output so far
\* is kept, one element stands for the span, and scanning resumes at top
\* level right after the terminator.
C23_ErrorElementPerSpan ==
    [][Substitutes =>
          LET from == pos - Len(tex) - Len(Opener(mode))
              scanned == SubSeq(md, from + Len(Opener(mode)), pos - 1)
              out == Emitted[1]
          IN /\ out.kind \in {"katex", "math-error"}
             /\ out.display = (mode \in {"display", "bracket"})
             /\ out.kind = "math-error" => out.tex = scanned
             /\ OccursAt(md, Opener(mode), from)
             /\ OccursAt(md, Terminator(mode), pos)
             /\ result = SubSeq(result', 1, Len(result))
             /\ pos' = pos + Len(Terminator(mode))
             /\ md' = md
             /\ tex' = <<>>]_vars

\* C23, its case: the renderer failed for a span whose TeX has whitespace
\* at an end, or for a span with text copied before and after it.
C23_Witness ==
    /\ mode = "done"
    /\ \E k \in 1..Len(result) :
          /\ result[k].kind = "math-error"
          /\ \/ result[k].tex # Trim(result[k].tex)
             \/ /\ 1 < k
                /\ k < Len(result)
                /\ result[k].tex # <<>>

====
